---- MODULE Spec2Model ----
(***************************************************************************)
(* Model of the module02 movie catalog: the Person flyweight registry      *)
(* (person/person.py), the MovieRating predefined-flyweight registry and   *)
(* its comparison operators (movie/rating.py), the create_movie factory,   *)
(* the methods of Movie and its subclasses (movie/movie.py), and           *)
(* load_movies and the menu loop of main (eval_02.py).                     *)
(*                                                                         *)
(* Python strings are modelled as sequences of one-character strings so    *)
(* that strip(), lower(), split(",") and the lexicographic comparison of   *)
(* str are computed character by character.  Object identity (id()) is a   *)
(* number drawn from the allocation counter nextId.                        *)
(*                                                                         *)
(* main is the position of eval_02.main (the rows of the file, the row     *)
(* reached, the catalog and error count of load_movies, the last menu      *)
(* choice); heap holds the list objects behind Movie.directors, which a    *)
(* caller may mutate.                                                      *)
(***************************************************************************)
EXTENDS Integers, Sequences, FiniteSets, TLC

VARIABLES persons, ratings, nextId, result, handed, main, heap

vars == <<persons, ratings, nextId, result, handed, main, heap>>

\* ------------------------------------------------------------------------
\* Bounds of the model
\* ------------------------------------------------------------------------
\* The most spaces put before, and after, a name passed by a caller.
MaxPad == 1

\* The most fields of the valid row MOVIE_INFO replaced in one row.
MaxAltered == 2

\* The most objects (persons and movies) the factory allocates in one run.
MaxObjects == 3

\* The most list objects alive at once, and the most items in one of them.
MaxLists == 2
MaxListLen == 2

\* The most rows in the file load_movies reads.
MaxRows == 2

\* ------------------------------------------------------------------------
\* Python str primitives
\* ------------------------------------------------------------------------

\* The printable ASCII characters in code-point order, starting at 32 (the
\* three characters a TLA+ string cannot hold are spelled out; no input uses them).
Ascii ==
  <<" ", "!", "<dquote>", "#", "$", "%", "&", "'", "(", ")", "*", "+", ",", "-", ".", "/",
    "0", "1", "2", "3", "4", "5", "6", "7", "8", "9", ":", ";", "<", "=", ">", "?",
    "@", "A", "B", "C", "D", "E", "F", "G", "H", "I", "J", "K", "L", "M", "N", "O",
    "P", "Q", "R", "S", "T", "U", "V", "W", "X", "Y", "Z", "[", "<backslash>", "]", "^", "_",
    "<backtick>", "a", "b", "c", "d", "e", "f", "g", "h", "i", "j", "k", "l", "m", "n", "o",
    "p", "q", "r", "s", "t", "u", "v", "w", "x", "y", "z", "{", "|", "}", "~">>

\* ord(c): the code point of a printable ASCII character.
CodePoint == [c \in {Ascii[i] : i \in 1..Len(Ascii)} |-> 31 + (CHOOSE i \in 1..Len(Ascii) : Ascii[i] = c)]

ord(c) == CodePoint[c]

\* The characters str.strip() removes (those of them the model draws).
Whitespace == {" ", "\t", "\n"}

SetMin(S) == CHOOSE x \in S : \A y \in S : x <= y
SetMax(S) == CHOOSE x \in S : \A y \in S : x >= y

\* str.strip(): drop leading and trailing whitespace.
strip(s) ==
  LET keep == {i \in 1..Len(s) : s[i] \notin Whitespace}
  IN  IF keep = {} THEN <<>> ELSE SubSeq(s, SetMin(keep), SetMax(keep))

UpperChars == {Ascii[i] : i \in 34..59}
LowerChars == {Ascii[i] : i \in 66..91}

IsUpperChar(c) == c \in UpperChars
IsLowerChar(c) == c \in LowerChars

\* str.lower() and str.upper(), on ASCII.
lower(s) == [i \in 1..Len(s) |-> IF IsUpperChar(s[i]) THEN Ascii[ord(s[i]) + 32 - 31] ELSE s[i]]
upper(s) == [i \in 1..Len(s) |-> IF IsLowerChar(s[i]) THEN Ascii[ord(s[i]) - 32 - 31] ELSE s[i]]

\* Python's s < t on str: lexicographic by code point, a proper prefix is smaller.
str_lt(s, t) ==
  \E i \in 1..Len(t) :
    /\ i <= Len(s) + 1
    /\ \A j \in 1..(i - 1) : s[j] = t[j]
    /\ (i = Len(s) + 1 \/ ord(s[i]) < ord(t[i]))

\* dict[k] = v
dict_set(d, k, v) == [x \in (DOMAIN d) \cup {k} |-> IF x = k THEN v ELSE d[x]]

\* dict.values()
dict_values(d) == {d[k] : k \in DOMAIN d}

\* Python's None.
None == [id |-> 0]

\* A call that returned normally with value v, and one that raised.
Returned(op, args, v) == [op |-> op, args |-> args, exc |-> "", msg |-> "", val |-> v]
Raised(op, args, exc, msg) == [op |-> op, args |-> args, exc |-> exc, msg |-> msg, val |-> None]

\* ------------------------------------------------------------------------
\* person/person.py
\* ------------------------------------------------------------------------

\* Person.__init__ without the check of lines 34-38: a second construction
\* under a registered key replaces the registered instance.
Person_init_overwrite(reg, id, full_name) ==
  IF full_name = <<>> \/ strip(full_name) = <<>>
  THEN [persons |-> reg, exc |-> "ValueError", msg |-> "Full name cannot be empty", val |-> None]
  ELSE LET fn   == strip(full_name)
           nn   == lower(fn)
           self == [id |-> id, full_name |-> fn, normalized_name |-> nn]
       IN  [persons |-> dict_set(reg, nn, self), exc |-> "", msg |-> "", val |-> self]

\* Person.__init__ testing only "not full_name": a whitespace-only name is
\* registered under the empty key.
Person_init_blank(reg, id, full_name) ==
  IF full_name = <<>>
  THEN [persons |-> reg, exc |-> "ValueError", msg |-> "Full name cannot be empty", val |-> None]
  ELSE LET fn   == strip(full_name)
           nn   == lower(fn)
           self == [id |-> id, full_name |-> fn, normalized_name |-> nn]
       IN  IF nn \in DOMAIN reg
           THEN [persons |-> reg, exc |-> "ValueError", msg |-> "Person already exists", val |-> None]
           ELSE [persons |-> dict_set(reg, nn, self), exc |-> "", msg |-> "", val |-> self]

\* Person.__init__ on registry reg, self being the object with identity id.
\* The outcome carries the registry afterwards and either the new instance
\* or the exception raised.
Person_init(reg, id, full_name) ==
  IF full_name = <<>> \/ strip(full_name) = <<>>
  THEN [persons |-> reg, exc |-> "ValueError", msg |-> "Full name cannot be empty", val |-> None]
  ELSE LET fn   == strip(full_name)
           nn   == lower(fn)
           self == [id |-> id, full_name |-> fn, normalized_name |-> nn]
       IN  IF nn \in DOMAIN reg
           THEN [persons |-> reg, exc |-> "ValueError", msg |-> "Person already exists", val |-> None]
           ELSE [persons |-> dict_set(reg, nn, self), exc |-> "", msg |-> "", val |-> self]

\* get_person looking the name up as spelled instead of lower-cased.
get_person_in_exact(reg, id, full_name) ==
  IF full_name = <<>> \/ strip(full_name) = <<>>
  THEN [persons |-> reg, exc |-> "ValueError", msg |-> "Full name cannot be empty", val |-> None]
  ELSE LET fn == strip(full_name)
       IN  IF fn \in DOMAIN reg
           THEN [persons |-> reg, exc |-> "", msg |-> "", val |-> reg[fn]]
           ELSE Person_init(reg, id, fn)

\* get_person replacing the registered Person when the name is spelled
\* differently from the one registered.
get_person_in_respell(reg, id, full_name) ==
  IF full_name = <<>> \/ strip(full_name) = <<>>
  THEN [persons |-> reg, exc |-> "ValueError", msg |-> "Full name cannot be empty", val |-> None]
  ELSE LET fn == strip(full_name)
           normalized_name == lower(fn)
           self == [id |-> id, full_name |-> fn, normalized_name |-> normalized_name]
       IN  IF normalized_name \in DOMAIN reg /\ reg[normalized_name].full_name = fn
           THEN [persons |-> reg, exc |-> "", msg |-> "", val |-> reg[normalized_name]]
           ELSE [persons |-> dict_set(reg, normalized_name, self), exc |-> "", msg |-> "",
                 val |-> self]

\* get_person on registry reg; id is the identity a new object would get.
get_person_in(reg, id, full_name) ==
  IF full_name = <<>> \/ strip(full_name) = <<>>
  THEN [persons |-> reg, exc |-> "ValueError", msg |-> "Full name cannot be empty", val |-> None]
  ELSE LET fn == strip(full_name)
           normalized_name == lower(fn)
       IN  IF normalized_name \in DOMAIN reg
           THEN [persons |-> reg, exc |-> "", msg |-> "", val |-> reg[normalized_name]]
           ELSE Person_init(reg, id, fn)

\* The attributes the class Person defines.
PersonAttrs ==
  {"_persons", "__init__", "full_name", "__repr__", "__str__", "__eq__", "__hash__"}

\* The names callers pass: the empty name, two names in several letter
\* cases (one with an inner space), each behind and before up to MaxPad spaces.
CoreNames ==
  { <<>>, <<"a">>, <<"A">>, <<"a", " ", "b">>, <<"A", " ", "B">>, <<"a", " ", "B">> }

Pad(n) == [i \in 1..n |-> " "]

NameInputs == {Pad(i) \o core \o Pad(j) : i \in 0..MaxPad, j \in 0..MaxPad, core \in CoreNames}

\* A caller evaluates Person(full_name).
Person(full_name) ==
  LET out == Person_init(persons, nextId, full_name)
  IN  /\ persons' = out.persons
      /\ nextId' = IF out.exc = "" THEN nextId + 1 ELSE nextId
      /\ result' = IF out.exc = "" THEN Returned("Person", <<full_name>>, out.val)
                   ELSE Raised("Person", <<full_name>>, out.exc, out.msg)
      /\ handed' = IF out.exc = "" THEN handed \cup {out.val} ELSE handed
      /\ UNCHANGED <<ratings, main, heap>>

\* A caller evaluates get_person(full_name).
get_person(full_name) ==
  LET out == get_person_in(persons, nextId, full_name)
  IN  /\ persons' = out.persons
      /\ nextId' = IF out.persons # persons THEN nextId + 1 ELSE nextId
      /\ result' = IF out.exc = "" THEN Returned("get_person", <<full_name>>, out.val)
                   ELSE Raised("get_person", <<full_name>>, out.exc, out.msg)
      /\ handed' = IF out.exc = "" THEN handed \cup {out.val} ELSE handed
      /\ UNCHANGED <<ratings, main, heap>>

\* A caller evaluates Person.persons_count(), as test_person does.
persons_count ==
  /\ result' = IF "persons_count" \in PersonAttrs
               THEN Returned("persons_count", <<>>, Cardinality(DOMAIN persons))
               ELSE Raised("persons_count", <<>>, "AttributeError", "no attribute persons_count")
  /\ UNCHANGED <<persons, ratings, nextId, handed, main, heap>>

\* eval_02.count_person_objects(): reports len(Person._persons).
count_person_objects ==
  /\ result' = Returned("count_person_objects", <<>>, Cardinality(DOMAIN persons))
  /\ UNCHANGED <<persons, ratings, nextId, handed, main, heap>>

\* ------------------------------------------------------------------------
\* movie/rating.py
\* ------------------------------------------------------------------------

\* MovieRating._rating_order
rating_order ==
  << <<"N", "R">>, <<"G">>, <<"P", "G">>, <<"P", "G", "-", "1", "3">>, <<"R">>,
     <<"N", "C", "1", "7">> >>

\* list.index(x): the first position of x, or 0 where Python raises ValueError.
list_index(lst, x) ==
  IF \E i \in 1..Len(lst) : lst[i] = x
  THEN SetMin({i \in 1..Len(lst) : lst[i] = x})
  ELSE 0

\* MovieRating.__eq__
MovieRating_eq(self, other) == self.code = other.code

\* __lt__ ranking a code that _rating_order lacks before every code it has,
\* without a string comparison.
MovieRating_lt_unlisted_first(self, other) ==
  list_index(rating_order, self.code) < list_index(rating_order, other.code)

\* MovieRating.__lt__: positions in _rating_order, and the string comparison
\* of the codes when either index() raises.
MovieRating_lt(self, other) ==
  LET self_index  == list_index(rating_order, self.code)
      other_index == list_index(rating_order, other.code)
  IN  IF self_index # 0 /\ other_index # 0
      THEN self_index < other_index
      ELSE str_lt(self.code, other.code)

\* MovieRating.__le__
MovieRating_le(self, other) == MovieRating_lt(self, other) \/ MovieRating_eq(self, other)

\* MovieRating.__gt__
MovieRating_gt(self, other) == ~MovieRating_le(self, other)

\* MovieRating.__ge__
MovieRating_ge(self, other) == ~MovieRating_lt(self, other)

\* MovieRating.__init__ testing only "not code": an empty description is accepted.
MovieRating_init_nodesc(reg, id, code, description) ==
  IF code = <<>>
  THEN [ratings |-> reg, exc |-> "ValueError", msg |-> "Code and description cannot be empty",
        val |-> None]
  ELSE LET self == [id |-> id, code |-> code, description |-> description]
       IN  IF code \in DOMAIN reg
           THEN [ratings |-> reg, exc |-> "ValueError", msg |-> "Rating already exists", val |-> None]
           ELSE [ratings |-> dict_set(reg, code, self), exc |-> "", msg |-> "", val |-> self]

\* MovieRating.__init__ on registry reg, self being the object with identity id.
MovieRating_init(reg, id, code, description) ==
  IF code = <<>> \/ description = ""
  THEN [ratings |-> reg, exc |-> "ValueError", msg |-> "Code and description cannot be empty",
        val |-> None]
  ELSE LET self == [id |-> id, code |-> code, description |-> description]
       IN  IF code \in DOMAIN reg
           THEN [ratings |-> reg, exc |-> "ValueError", msg |-> "Rating already exists", val |-> None]
           ELSE [ratings |-> dict_set(reg, code, self), exc |-> "", msg |-> "", val |-> self]

\* get_rating answering an unregistered code with the NR rating.
get_rating_in_default(reg, code) ==
  IF code \notin DOMAIN reg
  THEN [exc |-> "", msg |-> "", val |-> reg[<<"N", "R">>]]
  ELSE [exc |-> "", msg |-> "", val |-> reg[code]]

\* get_rating on registry reg.
get_rating_in(reg, code) ==
  IF code \notin DOMAIN reg
  THEN [exc |-> "ValueError", msg |-> "Rating does not exist", val |-> None]
  ELSE [exc |-> "", msg |-> "", val |-> reg[code]]

\* The six module-level constructions, in the order rating.py executes them.
PredefinedArgs ==
  << [code |-> <<"N", "R">>,                description |-> "Not Rated"],
     [code |-> <<"G">>,                     description |-> "General Audiences"],
     [code |-> <<"P", "G">>,                description |-> "Parental Guidance Suggested"],
     [code |-> <<"P", "G", "-", "1", "3">>, description |-> "Parents Strongly Cautioned"],
     [code |-> <<"R">>,                     description |-> "Restricted"],
     [code |-> <<"N", "C", "-", "1", "7">>, description |-> "Adults Only"] >>

\* The registry after the first n module-level constructions (identities 1..n).
RECURSIVE PredefinedRatings(_)
PredefinedRatings(n) ==
  IF n = 0 THEN <<>>
  ELSE MovieRating_init(PredefinedRatings(n - 1), n,
                        PredefinedArgs[n].code, PredefinedArgs[n].description).ratings

\* The codes and descriptions callers pass.
CodeInputs ==
  { <<>>, <<"N", "R">>, <<"G">>, <<"P", "G">>, <<"P", "G", "-", "1", "3">>, <<"R">>,
    <<"N", "C", "1", "7">>, <<"N", "C", "-", "1", "7">>, <<"P", "G", "2", "8">> }

DescInputs == {"", "Some description", "Nieuwe code"}

\* A caller evaluates MovieRating(code, description).
MovieRating(code, description) ==
  LET out == MovieRating_init(ratings, nextId, code, description)
  IN  /\ ratings' = out.ratings
      /\ nextId' = IF out.exc = "" THEN nextId + 1 ELSE nextId
      /\ result' = IF out.exc = "" THEN Returned("MovieRating", <<code, description>>, out.val)
                   ELSE Raised("MovieRating", <<code, description>>, out.exc, out.msg)
      /\ UNCHANGED <<persons, handed, main, heap>>

\* A caller evaluates get_rating(code).
get_rating(code) ==
  LET out == get_rating_in(ratings, code)
  IN  /\ result' = IF out.exc = "" THEN Returned("get_rating", <<code>>, out.val)
                   ELSE Raised("get_rating", <<code>>, out.exc, out.msg)
      /\ UNCHANGED <<persons, ratings, nextId, handed, main, heap>>

\* A caller compares two registered ratings with one of the five operators.
CompareOps == {"eq", "lt", "le", "gt", "ge"}

compare(op, a, b) ==
  /\ result' = Returned(op, <<a, b>>,
                 CASE op = "eq" -> MovieRating_eq(a, b)
                   [] op = "lt" -> MovieRating_lt(a, b)
                   [] op = "le" -> MovieRating_le(a, b)
                   [] op = "gt" -> MovieRating_gt(a, b)
                   [] op = "ge" -> MovieRating_ge(a, b))
  /\ UNCHANGED <<persons, ratings, nextId, handed, main, heap>>

\* ------------------------------------------------------------------------
\* movie/movie.py
\* ------------------------------------------------------------------------

\* An Optional value: <<>> is None, <<v>> is the value v.
Some(v) == <<v>>

\* Python truthiness of an optional string: "not x" holds of None and of "".
Falsy_none_only(x) == x = <<>>

Falsy(x) == x = <<>> \/ x[1] = <<>>

\* str.split(","): the pieces between the commas.
RECURSIVE split(_)
split(s) ==
  IF \A i \in 1..Len(s) : s[i] # ","
  THEN <<s>>
  ELSE LET i == SetMin({j \in 1..Len(s) : s[j] = ","})
       IN  <<SubSeq(s, 1, i - 1)>> \o split(SubSeq(s, i + 1, Len(s)))

Digits == {Ascii[i] : i \in 17..26}

RECURSIVE digits_value(_)
digits_value(s) ==
  IF s = <<>> THEN 0
  ELSE IF s[Len(s)] = "_" THEN digits_value(SubSeq(s, 1, Len(s) - 1))
  ELSE 10 * digits_value(SubSeq(s, 1, Len(s) - 1)) + (ord(s[Len(s)]) - 48)

\* int(s) of a str: surrounding whitespace and one sign are accepted, the
\* digits may be grouped by single underscores; <<>> where int raises ValueError.
parse_int(s) ==
  LET t    == strip(s)
      neg  == t # <<>> /\ t[1] = "-"
      body == IF t # <<>> /\ t[1] \in {"+", "-"} THEN SubSeq(t, 2, Len(t)) ELSE t
  IN  IF /\ body # <<>>
         /\ \A i \in 1..Len(body) : body[i] \in Digits \cup {"_"}
         /\ body[1] # "_"
         /\ body[Len(body)] # "_"
         /\ \A i \in 1..(Len(body) - 1) : ~(body[i] = "_" /\ body[i + 1] = "_")
      THEN Some(IF neg THEN 0 - digits_value(body) ELSE digits_value(body))
      ELSE <<>>

\* The days of a month of the proleptic Gregorian calendar.
days_in_month(year, month) ==
  IF month = 2
  THEN IF year % 4 = 0 /\ (year % 100 # 0 \/ year % 400 = 0) THEN 29 ELSE 28
  ELSE IF month \in {4, 6, 9, 11} THEN 30 ELSE 31

\* datetime.strptime(s, '%Y-%m-%d'): four digits, a month 1-12 in one or two
\* digits, a day in one or two digits (or a space and a digit), nothing else,
\* and a date that exists; <<>> where strptime raises ValueError.
parse_date(s) ==
  LET dashes == {i \in 1..Len(s) : s[i] = "-"}
  IN  IF Cardinality(dashes) # 2 \/ SetMin(dashes \cup {99}) # 5
      THEN <<>>
      ELSE LET second == SetMax(dashes)
               y == SubSeq(s, 1, 4)
               m == SubSeq(s, 6, second - 1)
               d == SubSeq(s, second + 1, Len(s))
               m_ok == \/ Len(m) = 1 /\ m[1] \in Digits \ {"0"}
                       \/ Len(m) = 2 /\ m[1] = "1" /\ m[2] \in {"0", "1", "2"}
                       \/ Len(m) = 2 /\ m[1] = "0" /\ m[2] \in Digits \ {"0"}
               d_ok == \/ Len(d) = 1 /\ d[1] \in Digits \ {"0"}
                       \/ Len(d) = 2 /\ d[1] = "3" /\ d[2] \in {"0", "1"}
                       \/ Len(d) = 2 /\ d[1] \in {"1", "2"} /\ d[2] \in Digits
                       \/ Len(d) = 2 /\ d[1] = "0" /\ d[2] \in Digits \ {"0"}
                       \/ Len(d) = 2 /\ d[1] = " " /\ d[2] \in Digits \ {"0"}
           IN  IF (\A i \in 1..4 : y[i] \in Digits) /\ m_ok /\ d_ok
               THEN LET year  == digits_value(y)
                        month == digits_value(m)
                        day   == digits_value(strip(d))
                    IN  IF year >= 1 /\ day <= days_in_month(year, month)
                        THEN Some([year |-> year, month |-> month, day |-> day])
                        ELSE <<>>
               ELSE <<>>

\* genre_map without its last entry.
genre_map_no_western ==
  ( <<"A", "C", "T", "I", "O", "N", " ", "&", " ", "A", "D", "V", "E", "N", "T", "U", "R", "E">> :> "ActionAdventure" ) @@
  ( <<"C", "O", "M", "E", "D", "Y">> :> "Comedy" ) @@
  ( <<"D", "R", "A", "M", "A">> :> "Drama" ) @@
  ( <<"H", "O", "R", "R", "O", "R">> :> "Horror" ) @@
  ( <<"R", "O", "M", "A", "N", "C", "E">> :> "Romance" ) @@
  ( <<"S", "C", "I", "E", "N", "C", "E", " ", "F", "I", "C", "T", "I", "O", "N", " ", "&", " ", "F", "A", "N", "T", "A", "S", "Y">> :> "ScienceFictionFantasy" )

\* genre_map of create_movie: the upper-cased genre name to the subclass.
genre_map ==
  ( <<"A", "C", "T", "I", "O", "N", " ", "&", " ", "A", "D", "V", "E", "N", "T", "U", "R", "E">> :> "ActionAdventure" ) @@
  ( <<"C", "O", "M", "E", "D", "Y">> :> "Comedy" ) @@
  ( <<"D", "R", "A", "M", "A">> :> "Drama" ) @@
  ( <<"H", "O", "R", "R", "O", "R">> :> "Horror" ) @@
  ( <<"R", "O", "M", "A", "N", "C", "E">> :> "Romance" ) @@
  ( <<"S", "C", "I", "E", "N", "C", "E", " ", "F", "I", "C", "T", "I", "O", "N", " ", "&", " ", "F", "A", "N", "T", "A", "S", "Y">> :> "ScienceFictionFantasy" ) @@
  ( <<"W", "E", "S", "T", "E", "R", "N">> :> "Western" )

\* Movie.__init__ of every subclass cls, kw holding the keyword arguments;
\* rt_link and title are optional strings, rating an optional MovieRating.
Movie_init(cls, id, kw) ==
  IF Falsy(kw.rt_link) \/ Falsy(kw.title)
  THEN [exc |-> "ValueError", msg |-> "rt_link and title cannot be empty", val |-> None]
  ELSE IF kw.rating = <<>>
  THEN [exc |-> "ValueError", msg |-> "rating cannot be None", val |-> None]
  ELSE [exc |-> "", msg |-> "",
        val |-> [id |-> id, class |-> cls, rt_link |-> kw.rt_link[1], title |-> kw.title[1],
                 rating |-> kw.rating[1], directors |-> kw.directors,
                 release_date |-> kw.release_date, streaming_date |-> kw.streaming_date,
                 length |-> kw.length, company |-> kw.company, score |-> kw.score,
                 count |-> kw.count]]

\* The director names resolved in order but collected last name first.
RECURSIVE resolve_directors_reversed(_, _, _)
resolve_directors_reversed(reg, id, names) ==
  IF names = <<>>
  THEN [persons |-> reg, nextId |-> id, directors |-> <<>>]
  ELSE LET before == resolve_directors_reversed(reg, id, SubSeq(names, 1, Len(names) - 1))
           out    == get_person_in(before.persons, before.nextId, names[Len(names)])
       IN  [persons   |-> out.persons,
            nextId    |-> IF out.persons # before.persons THEN before.nextId + 1
                          ELSE before.nextId,
            directors |-> <<out.val>> \o before.directors]

\* The director names resolved in order, each movie getting Person objects
\* of its own that carry the spelling of its row.
RECURSIVE resolve_directors_respelled(_, _, _)
resolve_directors_respelled(reg, id, names) ==
  IF names = <<>>
  THEN [persons |-> reg, nextId |-> id, directors |-> <<>>]
  ELSE LET before == resolve_directors_respelled(reg, id, SubSeq(names, 1, Len(names) - 1))
           out    == get_person_in(before.persons, before.nextId, names[Len(names)])
       IN  [persons   |-> out.persons,
            nextId    |-> IF out.persons # before.persons THEN before.nextId + 1
                          ELSE before.nextId,
            directors |-> Append(before.directors,
                                 [out.val EXCEPT !.full_name = names[Len(names)]])]

\* [get_person(name) for name in director_names]: the registry, the next
\* identity and the persons collected after resolving the names in order.
RECURSIVE resolve_directors(_, _, _)
resolve_directors(reg, id, names) ==
  IF names = <<>>
  THEN [persons |-> reg, nextId |-> id, directors |-> <<>>]
  ELSE LET before == resolve_directors(reg, id, SubSeq(names, 1, Len(names) - 1))
           out    == get_person_in(before.persons, before.nextId, names[Len(names)])
       IN  [persons   |-> out.persons,
            nextId    |-> IF out.persons # before.persons THEN before.nextId + 1
                          ELSE before.nextId,
            directors |-> Append(before.directors, out.val)]

\* "if name.strip()": the non-empty strings of a list, in order.
RECURSIVE non_empty(_)
non_empty(lst) ==
  IF lst = <<>> THEN <<>>
  ELSE IF lst[1] # <<>> THEN <<lst[1]>> \o non_empty(Tail(lst)) ELSE non_empty(Tail(lst))

\* create_movie on the two registries; movie_info maps every field name to
\* an optional string (<<>> for a key that is missing or holds None).
create_movie_in(preg, rreg, id, movie_info) ==
  LET rt_link     == movie_info["rotten_tomatoes_link"]
      title       == movie_info["movie_title"]
      rating_code == movie_info["content_rating"]
      genre       == movie_info["genre"]
  IN  IF Falsy(rt_link) \/ Falsy(title) \/ Falsy(rating_code) \/ Falsy(genre)
      THEN [persons |-> preg, nextId |-> id, exc |-> "ValueError",
            msg |-> "Missing required fields", val |-> None]
      ELSE
      LET looked == get_rating_in(rreg, rating_code[1])
      IN  IF looked.exc # ""
          THEN [persons |-> preg, nextId |-> id, exc |-> "ValueError",
                msg |-> "Invalid rating code", val |-> None]
          ELSE
          LET directors_str  == movie_info["directors"]
              director_names == IF Falsy(directors_str) THEN <<>>
                                ELSE LET pieces == split(directors_str[1])
                                     IN  non_empty([i \in 1..Len(pieces) |-> strip(pieces[i])])
              resolved       == resolve_directors(preg, id, director_names)
              release_date_str   == movie_info["original_release_date"]
              streaming_date_str == movie_info["streaming_release_date"]
              release_date   == IF Falsy(release_date_str) THEN <<>>
                                ELSE parse_date(release_date_str[1])
              streaming_date == IF Falsy(streaming_date_str) THEN <<>>
                                ELSE parse_date(streaming_date_str[1])
              length_str     == movie_info["runtime"]
              length         == IF Falsy(length_str) THEN <<>> ELSE parse_int(length_str[1])
              score_str      == movie_info["audience_rating"]
              count_str      == movie_info["audience_count"]
              score          == IF Falsy(score_str) THEN <<>> ELSE parse_int(score_str[1])
              count          == IF Falsy(count_str) THEN <<>> ELSE parse_int(count_str[1])
              company        == movie_info["production_company"]
              genre_key      == upper(genre[1])
          IN  IF genre_key \notin DOMAIN genre_map
              THEN [persons |-> resolved.persons, nextId |-> resolved.nextId,
                    exc |-> "ValueError", msg |-> "Unknown genre", val |-> None]
              ELSE LET made == Movie_init(genre_map[genre_key], resolved.nextId,
                                [rt_link |-> rt_link, title |-> title,
                                 rating |-> Some(looked.val),
                                 directors |-> resolved.directors,
                                 release_date |-> release_date,
                                 streaming_date |-> streaming_date, length |-> length,
                                 company |-> company, score |-> score, count |-> count])
                   IN  [persons |-> resolved.persons,
                        nextId  |-> IF made.exc = "" THEN resolved.nextId + 1
                                    ELSE resolved.nextId,
                        exc |-> made.exc, msg |-> made.msg, val |-> made.val]

\* The field names of a row, in the order of MOVIE_INFO of the tests.
Fields ==
  << "rotten_tomatoes_link", "movie_title", "content_rating", "genre", "directors",
     "original_release_date", "streaming_release_date", "runtime", "production_company",
     "audience_rating", "audience_count" >>

RequiredFields == {"rotten_tomatoes_link", "movie_title", "content_rating", "genre"}

\* MOVIE_INFO of the tests: a fully valid row.
MOVIE_INFO ==
  << Some(<<"m", "/", "1", "0", "0", "0", "6", "4", "0", "-", "a", "l", "l", "_", "o", "f", "_", "m", "e">>), Some(<<"A", "l", "l", " ", "o", "f", " ", "M", "e">>), Some(<<"P", "G">>), Some(<<"C", "O", "M", "E", "D", "Y">>),
     Some(<<"C", "a", "r", "l", " ", "R", "e", "i", "n", "e", "r">>), Some(<<"1", "9", "8", "4", "-", "0", "9", "-", "2", "1">>), Some(<<"2", "0", "1", "6", "-", "1", "0", "-", "3", "0">>), Some(<<"9", "3">>),
     Some(<<"H", "B", "O", " ", "V", "i", "d", "e", "o">>), Some(<<"6", "7">>), Some(<<"1", "4", "3", "4", "6">>) >>

\* The other values tried for each field: missing, blank, and values that are
\* valid, unknown or malformed.
AltValues ==
  << { <<>>, Some(<<>>) },
     { <<>>, Some(<<>>) },
     { <<>>, Some(<<>>), Some(<<"R">>), Some(<<"N", "C", "1", "7">>) },
     { <<>>, Some(<<>>), Some(<<"H", "o", "r", "r", "o", "r">>), Some(<<"M", "u", "s", "i", "c", "a", "l">>) },
     { <<>>, Some(<<>>), Some(<<" ", "c", "a", "r", "l", " ", "r", "e", "i", "n", "e", "r", " ", ",", ",", " ", "R", "o", "b", " ", "R", "e", "i", "n", "e", "r">>) },
     { <<>>, Some(<<>>), Some(<<"a", "b", "c">>), Some(<<"2", "0", "0", "1", "-", "0", "2", "-", "2", "9">>) },
     { <<>>, Some(<<>>), Some(<<"3", "0", "/", "1", "0", "/", "2", "0", "1", "6">>) },
     { <<>>, Some(<<>>), Some(<<"a", "b", "c">>) },
     { <<>>, Some(<<>>) },
     { <<>>, Some(<<>>), Some(<<"6", "x">>) },
     { <<>>, Some(<<>>), Some(<<"9", "9">>) } >>

\* The rows built from MOVIE_INFO by replacing at most k of the fields i..11.
RECURSIVE RowsFrom(_, _)
RowsFrom(i, k) ==
  IF i > Len(Fields) THEN {<<>>}
  ELSE {<<MOVIE_INFO[i]>> \o rest : rest \in RowsFrom(i + 1, k)}
       \cup (IF k = 0 THEN {}
             ELSE {<<v>> \o rest : v \in AltValues[i], rest \in RowsFrom(i + 1, k - 1)})

\* A row as the mapping csv.DictReader yields.
AsMapping(row) == [f \in {Fields[i] : i \in 1..Len(Fields)} |->
                     row[CHOOSE i \in 1..Len(Fields) : Fields[i] = f]]

MovieInfos == {AsMapping(row) : row \in RowsFrom(1, MaxAltered)}

\* A caller evaluates create_movie(movie_info).
create_movie(movie_info) ==
  LET out == create_movie_in(persons, ratings, nextId, movie_info)
  IN  /\ result.op = "idle"
      /\ out.nextId <= Len(PredefinedArgs) + 1 + MaxObjects
      /\ persons' = out.persons
      /\ nextId' = out.nextId
      /\ result' = IF out.exc = "" THEN Returned("create_movie", <<movie_info>>, out.val)
                   ELSE Raised("create_movie", <<movie_info>>, out.exc, out.msg)
      /\ handed' = IF out.exc = ""
                   THEN handed \cup {out.val.directors[i] : i \in 1..Len(out.val.directors)}
                   ELSE handed
      /\ UNCHANGED <<ratings, main, heap>>

\* The caller is done with what the last call returned or raised (the tests
\* drop it, load_movies goes on to the next row).
next_row ==
  /\ result.op # "idle"
  /\ result' = Returned("idle", <<>>, None)
  /\ UNCHANGED <<persons, ratings, nextId, handed, main, heap>>

\* The properties and methods class Movie gives every movie.
MovieAttrs ==
  { "rt_link", "title", "rating", "directors", "release_date", "streaming_date", "length",
    "company", "score", "count", "relevant_score", "is_classic", "is_short", "url" }

\* The methods each subclass of Movie defines itself.
SubclassAttrs ==
  [cls \in {genre_map[g] : g \in DOMAIN genre_map} |->
     CASE cls = "Comedy"  -> {"is_slapstick"}
       [] cls = "Horror"  -> {"is_scary"}
       [] cls = "Romance" -> {"is_cosy"}
       [] OTHER           -> {}]

\* hasattr(movie, name).
hasattr(movie, name) == name \in MovieAttrs \cup SubclassAttrs[movie.class]

\* Rows for the three lookups of the factory (rating, genre, directors): the
\* genre names in upper, lower and mixed case and strings that are no genre
\* name; codes registered at import, registered later, or never; director
\* fields with repeated, respelled and empty names.
LookupValues ==
  << {}, {},
     { Some(<<"N", "C", "1", "7">>), Some(<<"N", "C", "-", "1", "7">>), Some(<<"P", "G", "2", "8">>), Some(<<"p", "g">>) },
     { Some(<<"A", "C", "T", "I", "O", "N", " ", "&", " ", "A", "D", "V", "E", "N", "T", "U", "R", "E">>), Some(<<"a", "c", "t", "i", "o", "n", " ", "&", " ", "a", "d", "v", "e", "n", "t", "u", "r", "e">>), Some(<<"c", "o", "m", "e", "d", "y">>), Some(<<"C", "o", "m", "e", "d", "y">>),
       Some(<<"D", "R", "A", "M", "A">>), Some(<<"d", "r", "a", "m", "a">>), Some(<<"H", "O", "R", "R", "O", "R">>), Some(<<"H", "o", "r", "r", "o", "r">>),
       Some(<<"R", "O", "M", "A", "N", "C", "E">>), Some(<<"r", "O", "m", "A", "n", "C", "e">>),
       Some(<<"S", "C", "I", "E", "N", "C", "E", " ", "F", "I", "C", "T", "I", "O", "N", " ", "&", " ", "F", "A", "N", "T", "A", "S", "Y">>), Some(<<"s", "c", "i", "e", "n", "c", "e", " ", "f", "i", "c", "t", "i", "o", "n", " ", "&", " ", "f", "a", "n", "t", "a", "s", "y">>),
       Some(<<"W", "E", "S", "T", "E", "R", "N">>), Some(<<"w", "e", "s", "t", "e", "r", "n">>), Some(<<"M", "u", "s", "i", "c", "a", "l">>), Some(<<" ", "C", "O", "M", "E", "D", "Y">>), Some(<<"C", "O", "M", "E", "D">>) },
     { <<>>, Some(<<>>), Some(<<" ", ",", " ", ",">>), Some(<<" ", "c", "a", "r", "l", " ", "r", "e", "i", "n", "e", "r", " ", ",", ",", " ", "R", "o", "b", " ", "R", "e", "i", "n", "e", "r">>), Some(<<"R", "o", "b", " ", "R", "e", "i", "n", "e", "r", ",", "C", "a", "r", "l", " ", "R", "e", "i", "n", "e", "r", ",", " ", "r", "o", "b", " ", "r", "e", "i", "n", "e", "r">>) },
     {}, {}, {}, {}, {}, {} >>

\* The rows built from MOVIE_INFO by replacing at most k of the fields i..11
\* with one of the values alts gives for the field.
RECURSIVE RowsWith(_, _, _)
RowsWith(alts, i, k) ==
  IF i > Len(Fields) THEN {<<>>}
  ELSE {<<MOVIE_INFO[i]>> \o rest : rest \in RowsWith(alts, i + 1, k)}
       \cup (IF k = 0 THEN {}
             ELSE {<<v>> \o rest : v \in alts[i], rest \in RowsWith(alts, i + 1, k - 1)})

LookupInfos == {AsMapping(row) : row \in RowsWith(LookupValues, 1, MaxAltered)}

\* The codes a caller registers after import.
LaterCodes == { <<"N", "C", "1", "7">>, <<"P", "G", "2", "8">> }

\* ------------------------------------------------------------------------
\* movie/movie.py: the methods of Movie and of its subclasses
\* ------------------------------------------------------------------------

\* relevant_score demanding more than 100 votes.
Movie_relevant_score_over(self) ==
  self.score # <<>> /\ self.count # <<>> /\ self.count[1] > 100

\* Movie.relevant_score.
Movie_relevant_score(self) ==
  self.score # <<>> /\ self.count # <<>> /\ self.count[1] >= 100

\* is_classic counting a film of exactly 20 years as too young.
Movie_is_classic_older(self, current_year) ==
  IF ~Movie_relevant_score(self) \/ self.score[1] <= 80 THEN FALSE
  ELSE IF self.release_date = <<>> THEN FALSE
  ELSE current_year - self.release_date[1].year > 20

\* Movie.is_classic, current_year being datetime.now().year.
Movie_is_classic(self, current_year) ==
  IF ~Movie_relevant_score(self) \/ self.score[1] <= 80 THEN FALSE
  ELSE IF self.release_date = <<>> THEN FALSE
  ELSE current_year - self.release_date[1].year >= 20

\* Movie.is_short.
Movie_is_short(self) == self.length # <<>> /\ self.length[1] < 30

\* Comedy.is_slapstick.
Comedy_is_slapstick(self) ==
  Movie_relevant_score(self) /\ self.score # <<>> /\ self.score[1] < 40

\* Horror.is_scary on rating registry rreg.
Horror_is_scary(rreg, self) ==
  LET pg_rating == get_rating_in(rreg, <<"P", "G">>)
  IN  IF pg_rating.exc # ""
      THEN [exc |-> pg_rating.exc, msg |-> pg_rating.msg, val |-> None]
      ELSE [exc |-> "", msg |-> "", val |-> MovieRating_gt(self.rating, pg_rating.val)]

\* Romance.is_cosy.
Romance_is_cosy(self) ==
  self.length # <<>> /\ 70 <= self.length[1] /\ self.length[1] <= 100

\* The attribute values of the movies the methods are called on.
ClassInputs == {"Comedy", "Drama", "Horror", "Romance"}
ScoreInputs == {<<>>, Some(39), Some(40), Some(80), Some(81)}
CountInputs == {<<>>, Some(99), Some(100)}
ReleaseInputs ==
  { <<>>, Some([year |-> 2006, month |-> 11, day |-> 6]),
    Some([year |-> 2007, month |-> 1, day |-> 1]) }
LengthInputs == {<<>>, Some(29), Some(70)}

\* The years datetime.now() may fall in.
YearInputs == {2026, 2027}

\* A movie is at hand: the last call returned one.
MovieAtHand == result.op \in {"Movie", "create_movie"} /\ result.exc = ""

\* A caller evaluates movie.name() for a method without arguments: the
\* outcome out, or AttributeError when the movie's class has no such method.
call_method(name, out) ==
  /\ MovieAtHand
  /\ result' = IF ~hasattr(result.val, name)
               THEN Raised(name, <<result.val>>, "AttributeError", "no such attribute")
               ELSE IF out.exc = "" THEN Returned(name, <<result.val>>, out.val)
               ELSE Raised(name, <<result.val>>, out.exc, out.msg)
  /\ UNCHANGED <<persons, ratings, nextId, handed, main, heap>>

relevant_score ==
  call_method("relevant_score", [exc |-> "", msg |-> "", val |-> Movie_relevant_score(result.val)])

is_short ==
  call_method("is_short", [exc |-> "", msg |-> "", val |-> Movie_is_short(result.val)])

is_slapstick ==
  call_method("is_slapstick", [exc |-> "", msg |-> "", val |-> Comedy_is_slapstick(result.val)])

is_scary == call_method("is_scary", Horror_is_scary(ratings, result.val))

is_cosy ==
  call_method("is_cosy", [exc |-> "", msg |-> "", val |-> Romance_is_cosy(result.val)])

\* A caller evaluates movie.is_classic() in the year current_year.
is_classic(current_year) ==
  /\ MovieAtHand
  /\ result' = Returned("is_classic", <<result.val, current_year>>,
                        Movie_is_classic(result.val, current_year))
  /\ UNCHANGED <<persons, ratings, nextId, handed, main, heap>>

\* ------------------------------------------------------------------------
\* movie/movie.py: the list behind Movie.directors
\* ------------------------------------------------------------------------

\* The directors property handing out the Movie's own list.
Movie_directors_alias(hp) ==
  [heap |-> [hp EXCEPT !.held = @ \cup {hp.own}, !.returned = @ \cup {hp.own}],
   ref  |-> hp.own]

\* The directors property: self._directors.copy(), a new list object with
\* the same items.
Movie_directors(hp) ==
  LET ref == Len(hp.lists) + 1
  IN  [heap |-> [hp EXCEPT !.lists = Append(@, hp.lists[hp.own]),
                           !.held = @ \cup {ref}, !.returned = @ \cup {ref}],
       ref  |-> ref]

\* A caller reads movie.directors.
directors ==
  LET out == Movie_directors(heap)
  IN  /\ heap.own # 0
      /\ Len(out.heap.lists) <= MaxLists
      /\ heap' = out.heap
      /\ result' = Returned("directors", <<>>,
                            [ref |-> out.ref, items |-> out.heap.lists[out.ref]])
      /\ UNCHANGED <<persons, ratings, nextId, handed, main>>

\* The methods of list by which a caller changes a list it holds.
ListMutations == {"append", "pop", "reverse", "clear"}

\* A caller evaluates lst.append(person) on a list it holds.
list_append(ref, person) ==
  /\ ref \in heap.held
  /\ Len(heap.lists[ref]) < MaxListLen
  /\ heap' = [heap EXCEPT !.lists[ref] = Append(@, person)]
  /\ result' = Returned("append", <<ref, person>>, None)
  /\ UNCHANGED <<persons, ratings, nextId, handed, main>>

\* lst.pop(): the last item removed, IndexError on an empty list.
list_pop(ref) ==
  /\ ref \in heap.held
  /\ IF heap.lists[ref] = <<>>
     THEN /\ result' = Raised("pop", <<ref>>, "IndexError", "pop from empty list")
          /\ UNCHANGED heap
     ELSE /\ heap' = [heap EXCEPT !.lists[ref] = SubSeq(@, 1, Len(@) - 1)]
          /\ result' = Returned("pop", <<ref>>, heap.lists[ref][Len(heap.lists[ref])])
  /\ UNCHANGED <<persons, ratings, nextId, handed, main>>

\* lst.reverse().
list_reverse(ref) ==
  /\ ref \in heap.held
  /\ heap' = [heap EXCEPT !.lists[ref] = [i \in 1..Len(@) |-> @[Len(@) + 1 - i]]]
  /\ result' = Returned("reverse", <<ref>>, None)
  /\ UNCHANGED <<persons, ratings, nextId, handed, main>>

\* lst.clear().
list_clear(ref) ==
  /\ ref \in heap.held
  /\ heap' = [heap EXCEPT !.lists[ref] = <<>>]
  /\ result' = Returned("clear", <<ref>>, None)
  /\ UNCHANGED <<persons, ratings, nextId, handed, main>>

\* The director fields of the rows the observed Movie is made from.
DirectorInputs == { MOVIE_INFO[5], Some(<<" ", "c", "a", "r", "l", " ", "r", "e", "i", "n", "e", "r", " ", ",", ",", " ", "R", "o", "b", " ", "R", "e", "i", "n", "e", "r">>) }

\* ------------------------------------------------------------------------
\* eval_02.py: load_movies and the menu of main
\* ------------------------------------------------------------------------

\* load_movies giving up (returning None) at the first row that fails.
load_movies_row_abort(m, out) ==
  IF out.exc = ""
  THEN [m EXCEPT !.line = @ + 1, !.movies = Append(@, out.val)]
  ELSE [m EXCEPT !.pc = "ended"]

\* The body of the loop of load_movies for one row, out being the outcome of
\* create_movie(row): the movie is appended, a ValueError is counted, any
\* other exception ends load_movies with None and so main.
load_movies_row(m, out) ==
  IF out.exc = ""
  THEN [m EXCEPT !.line = @ + 1, !.movies = Append(@, out.val)]
  ELSE IF out.exc = "ValueError"
  THEN [m EXCEPT !.line = @ + 1, !.errors = @ + 1]
  ELSE [m EXCEPT !.pc = "ended"]

\* The order of datetime values, here dates.
date_le(a, b) ==
  \/ a.year < b.year
  \/ a.year = b.year /\ a.month < b.month
  \/ a.year = b.year /\ a.month = b.month /\ a.day <= b.day

\* print_scary_horror_movies: the exception it ends with, "" for none.
print_scary_horror_movies(rreg, movies) ==
  LET raising == {i \in 1..Len(movies) :
                    movies[i].class = "Horror" /\ Horror_is_scary(rreg, movies[i]).exc # ""}
  IN  IF raising = {} THEN "" ELSE Horror_is_scary(rreg, movies[SetMin(raising)]).exc

\* option_11_filter_movies: the exception it ends with, "" for none.
\* strptime(None, ...) raises TypeError, and so does None < 120, which is
\* evaluated for a release date within the two dates.
option_11_filter_movies(movies) ==
  LET start_date == [year |-> 2000, month |-> 4, day |-> 1]
      end_date   == [year |-> 2005, month |-> 4, day |-> 1]
      raising    == {i \in 1..Len(movies) :
                       \/ movies[i].release_date = <<>>
                       \/ /\ date_le(start_date, movies[i].release_date[1])
                          /\ date_le(movies[i].release_date[1], end_date)
                          /\ movies[i].length = <<>>}
  IN  IF raising = {} THEN "" ELSE "TypeError"

\* The branch of the menu loop taken for a choice: the exception the helper
\* called ends with, "" for none.  Helpers 1-6 and 8 read the catalog and
\* print; helper 9 catches its own exceptions.
menu_branch(choice, rreg, movies) ==
  CASE choice = <<"7">>  -> print_scary_horror_movies(rreg, movies)
    [] choice = <<"1", "1">> -> option_11_filter_movies(movies)
    [] OTHER           -> ""

\* The rows a file may hold: MOVIE_INFO, a Horror without a usable release
\* date, a row of an unknown genre, and two movies released in 2003, one of
\* them without a runtime; three of them spell the directors their own way.
FileRow(title, genre, release, runtime) ==
  [AsMapping(MOVIE_INFO) EXCEPT !["movie_title"] = Some(title), !["genre"] = Some(genre),
                                !["original_release_date"] = Some(release),
                                !["runtime"] = Some(runtime)]

FileRows ==
  { AsMapping(MOVIE_INFO),
    [FileRow(<<"S", "a", "w">>, <<"H", "o", "r", "r", "o", "r">>, <<"u", "n", "k", "n", "o", "w", "n">>, <<"1", "0", "3">>)
       EXCEPT !["directors"] = Some(<<" ", "c", "a", "r", "l", " ", "r", "e", "i", "n", "e", "r", " ", ",", ",", " ", "R", "o", "b", " ", "R", "e", "i", "n", "e", "r">>)],
    [FileRow(<<"C", "h", "i", "c", "a", "g", "o">>, <<"M", "u", "s", "i", "c", "a", "l">>, <<"2", "0", "0", "2", "-", "1", "2", "-", "2", "7">>, <<"1", "1", "3">>)
       EXCEPT !["directors"] = Some(<<"R", "O", "B", " ", "R", "E", "I", "N", "E", "R">>)],
    [FileRow(<<"E", "l", "f">>, <<"C", "o", "m", "e", "d", "y">>, <<"2", "0", "0", "3", "-", "1", "1", "-", "0", "7">>, <<"9", "7">>)
       EXCEPT !["directors"] = Some(<<"C", "A", "R", "L", " ", "R", "E", "I", "N", "E", "R", " ">>)],
    FileRow(<<"H", "o", "l", "e", "s">>, <<"D", "r", "a", "m", "a">>, <<"2", "0", "0", "3", "-", "0", "4", "-", "1", "8">>, <<>>) }

\* The files: no file at all (<<>>), or a file of up to MaxRows rows.
RECURSIVE RowSeqs(_)
RowSeqs(n) ==
  IF n = 0 THEN {<<>>}
  ELSE RowSeqs(n - 1) \cup
       {Append(rows, row) : rows \in {rs \in RowSeqs(n - 1) : Len(rs) = n - 1}, row \in FileRows}

Files == {<<>>} \cup {Some(rows) : rows \in RowSeqs(MaxRows)}

\* What the user types at the prompt.
ChoiceInputs ==
  { <<"1">>, <<"2">>, <<"3">>, <<"4">>, <<"5">>, <<"6">>, <<"7">>, <<"8">>, <<"9">>, <<"1", "0">>, <<"1", "1">>,
    <<" ", "1", "1", " ">>, <<"1", "2">>, <<"x">>, <<>> }

\* main calls load_movies, which raises FileNotFoundError for a missing file
\* (main prints and returns) and otherwise starts reading rows.
load_movies ==
  /\ main.pc = "start"
  /\ IF main.file = <<>>
     THEN /\ main' = [main EXCEPT !.pc = "ended"]
          /\ result' = Raised("load_movies", <<>>, "FileNotFoundError", "Bestand niet gevonden")
     ELSE /\ main' = [main EXCEPT !.pc = "load"]
          /\ result' = Returned("open", <<>>, None)
  /\ UNCHANGED <<persons, ratings, nextId, handed, heap>>

\* load_movies passes the next row to create_movie.
load_row ==
  /\ main.pc = "load"
  /\ main.line < Len(main.file[1])
  /\ LET row == main.file[1][main.line + 1]
         out == create_movie_in(persons, ratings, nextId, row)
     IN  /\ persons' = out.persons
         /\ nextId' = out.nextId
         /\ main' = load_movies_row(main, out)
         /\ result' = IF out.exc = "" THEN Returned("create_movie", <<row>>, out.val)
                      ELSE Raised("create_movie", <<row>>, out.exc, out.msg)
         /\ handed' = IF out.exc = ""
                      THEN handed \cup {out.val.directors[i] : i \in 1..Len(out.val.directors)}
                      ELSE handed
  /\ UNCHANGED <<ratings, heap>>

\* The file is exhausted: load_movies returns the movies and main enters
\* the menu loop.
load_return ==
  /\ main.pc = "load"
  /\ main.line = Len(main.file[1])
  /\ main' = [main EXCEPT !.pc = "menu"]
  /\ result' = Returned("load_movies", <<>>, main.movies)
  /\ UNCHANGED <<persons, ratings, nextId, handed, heap>>

\* One round of the menu loop: the input is stripped; "10" breaks the loop,
\* every other choice runs its branch, and an exception of the branch is
\* caught by main's "except Exception", outside the loop.
menu(input) ==
  /\ main.pc = "menu"
  /\ LET choice == strip(input)
         exc    == IF choice = <<"1", "0">> THEN "" ELSE menu_branch(choice, ratings, main.movies)
     IN  /\ main' = [main EXCEPT !.choice = choice,
                                 !.pc = IF choice = <<"1", "0">> \/ exc # "" THEN "ended" ELSE "menu"]
         /\ result' = IF exc = "" THEN Returned("menu", <<choice>>, None)
                      ELSE Raised("menu", <<choice>>, exc, "Unexpected error")
  /\ UNCHANGED <<persons, ratings, nextId, handed, heap>>

\* ------------------------------------------------------------------------
\* The two registries under all five operations
\* ------------------------------------------------------------------------

\* The names, codes and rows passed when every operation on the registries
\* is open to the caller: the names of the directors of the rows in other
\* spellings, codes registered at import, later, or never.
RegistryNames == { <<>>, <<"C", "a", "r", "l", " ", "R", "e", "i", "n", "e", "r">>, <<" ", "c", "a", "r", "l", " ", "r", "e", "i", "n", "e", "r">>, <<"R", "O", "B", " ", "R", "E", "I", "N", "E", "R">> }

RegistryCodes == LaterCodes \cup { <<"P", "G">>, <<"p", "g">> }

RegistryInfos == {AsMapping(row) : row \in RowsWith(LookupValues, 1, 1)}

\* ------------------------------------------------------------------------
\* Specifications
\* ------------------------------------------------------------------------

\* eval_02.main not running: no file read, no catalog, no choice made.
NotStarted ==
  [pc |-> "off", file |-> <<>>, line |-> 0, movies |-> <<>>, errors |-> 0, choice |-> <<>>]

\* No Movie under observation: no list object allocated, none held by a
\* caller, none returned by Movie.directors.
NoLists == [lists |-> <<>>, own |-> 0, held |-> {}, returned |-> {}]

\* The state once module02.movie and module02.person are imported: an empty
\* Person registry and the six predefined ratings.
Init ==
  /\ persons = <<>>
  /\ ratings = PredefinedRatings(Len(PredefinedArgs))
  /\ nextId = Len(PredefinedArgs) + 1
  /\ result = Returned("import", <<>>, None)
  /\ handed = {}
  /\ main = NotStarted
  /\ heap = NoLists

\* The Person registry under every sequence of its operations.
NextPerson ==
  \/ \E full_name \in NameInputs : Person(full_name)
  \/ \E full_name \in NameInputs : get_person(full_name)
  \/ persons_count
  \/ count_person_objects

SpecPerson == Init /\ [][NextPerson]_vars

\* The rating registry under every sequence of its operations.
NextRating ==
  \/ \E code \in CodeInputs, description \in DescInputs : MovieRating(code, description)
  \/ \E code \in CodeInputs : get_rating(code)
  \/ \E op \in CompareOps, a \in dict_values(ratings), b \in dict_values(ratings) : compare(op, a, b)

SpecRating == Init /\ [][NextRating]_vars

\* The factory called row after row, on the registries as imported.
InitFactory ==
  /\ persons = <<>>
  /\ ratings = PredefinedRatings(Len(PredefinedArgs))
  /\ nextId = Len(PredefinedArgs) + 1
  /\ result = Returned("idle", <<>>, None)
  /\ handed = {}
  /\ main = NotStarted
  /\ heap = NoLists

NextFactory ==
  \/ \E movie_info \in MovieInfos : create_movie(movie_info)
  \/ next_row

SpecFactory == InitFactory /\ [][NextFactory]_vars

\* The factory on rows that exercise its three lookups, between calls that
\* register further rating codes.
NextLookup ==
  \/ \E movie_info \in LookupInfos : create_movie(movie_info)
  \/ \E code \in LaterCodes : result.op = "idle" /\ MovieRating(code, "Nieuwe code")
  \/ next_row

SpecLookup == InitFactory /\ [][NextLookup]_vars

\* One movie of any class, rating, score, vote count, release date and
\* length, constructed on the registries as imported, and one call of one of
\* its methods.
InitMethods ==
  /\ persons = <<>>
  /\ ratings = PredefinedRatings(Len(PredefinedArgs))
  /\ nextId = Len(PredefinedArgs) + 2
  /\ \E cls \in ClassInputs, rating \in dict_values(PredefinedRatings(Len(PredefinedArgs))),
        score \in ScoreInputs, count \in CountInputs, release_date \in ReleaseInputs,
        length \in LengthInputs :
        LET kw == [rt_link |-> MOVIE_INFO[1], title |-> MOVIE_INFO[2],
                   rating |-> Some(rating), directors |-> <<>>,
                   release_date |-> release_date, streaming_date |-> <<>>,
                   length |-> length, company |-> <<>>, score |-> score, count |-> count]
        IN  result = Returned("Movie", <<cls, kw>>,
                              Movie_init(cls, Len(PredefinedArgs) + 1, kw).val)
  /\ handed = {}
  /\ main = NotStarted
  /\ heap = NoLists

NextMethods ==
  \/ relevant_score
  \/ \E current_year \in YearInputs : is_classic(current_year)
  \/ is_short
  \/ is_slapstick
  \/ is_scary
  \/ is_cosy

SpecMethods == InitMethods /\ [][NextMethods]_vars

\* One Movie and the lists of its directors.  The Movie comes from
\* create_movie, which keeps the list it builds to itself, or a caller made a
\* Comedy from a list of its own, which Movie.__init__ stores as it is.
InitDirectors ==
  /\ ratings = PredefinedRatings(Len(PredefinedArgs))
  /\ handed = {}
  /\ main = NotStarted
  /\ \E field \in DirectorInputs, given \in BOOLEAN :
        LET movie_info == [AsMapping(MOVIE_INFO) EXCEPT !["directors"] = field]
            out == create_movie_in(<<>>, ratings, Len(PredefinedArgs) + 1, movie_info)
        IN  /\ persons = out.persons
            /\ nextId = out.nextId
            /\ result = Returned(IF given THEN "Movie" ELSE "create_movie",
                                 <<movie_info>>, out.val)
            /\ heap = [lists |-> <<out.val.directors>>, own |-> 1,
                       held |-> IF given THEN {1} ELSE {}, returned |-> {}]

NextDirectors ==
  \/ directors
  \/ \E ref \in 1..MaxLists, person \in dict_values(persons) : list_append(ref, person)
  \/ \E ref \in 1..MaxLists : list_pop(ref)
  \/ \E ref \in 1..MaxLists : list_reverse(ref)
  \/ \E ref \in 1..MaxLists : list_clear(ref)

SpecDirectors == InitDirectors /\ [][NextDirectors]_vars

\* eval_02.main on any of the files, with any input at the prompt.
InitMain ==
  /\ persons = <<>>
  /\ ratings = PredefinedRatings(Len(PredefinedArgs))
  /\ nextId = Len(PredefinedArgs) + 1
  /\ result = Returned("main", <<>>, None)
  /\ handed = {}
  /\ \E file \in Files : main = [NotStarted EXCEPT !.pc = "start", !.file = file]
  /\ heap = NoLists

NextMain ==
  \/ load_movies
  \/ load_row
  \/ load_return
  \/ \E input \in ChoiceInputs : menu(input)

SpecMain == InitMain /\ [][NextMain]_vars

\* Person(), get_person(), MovieRating(), get_rating() and create_movie() in
\* any order, one call after the other.
NextRegistries ==
  \/ /\ result.op = "idle"
     /\ nextId <= Len(PredefinedArgs) + MaxObjects
     /\ \/ \E full_name \in RegistryNames : Person(full_name)
        \/ \E full_name \in RegistryNames : get_person(full_name)
        \/ \E code \in RegistryCodes : MovieRating(code, "Nieuwe code")
        \/ \E code \in RegistryCodes : get_rating(code)
        \/ \E movie_info \in RegistryInfos : create_movie(movie_info)
  \/ next_row

SpecRegistries == InitFactory /\ [][NextRegistries]_vars

\* ------------------------------------------------------------------------
\* Properties of the Person registry
\* ------------------------------------------------------------------------

\* The normalized key of a name: trimmed, lower-cased.
NormKey(name) == lower(strip(name))

\* C1: the registry holds at most one Person per normalized key (every entry
\* sits under the normalized key of its own name), and every Person ever
\* returned to a caller is the instance the registry holds under its key.
C1_OnePersonPerKey ==
  /\ \A k \in DOMAIN persons : NormKey(persons[k].full_name) = k
  /\ \A p, q \in dict_values(persons) :
        NormKey(p.full_name) = NormKey(q.full_name) => p = q
  /\ \A p \in handed :
        /\ NormKey(p.full_name) \in DOMAIN persons
        /\ persons[NormKey(p.full_name)] = p

\* C1 witness: two persons are registered and a get_person call spelled
\* differently from the registered name has returned one of them.
C1_Witness ==
  /\ Cardinality(DOMAIN persons) >= 2
  /\ result.op = "get_person"
  /\ result.exc = ""
  /\ result.args[1] # result.val.full_name
  /\ result.val \in handed

\* C2: get_person with a name that is non-empty once trimmed never raises:
\* under a registered key it returns the registered instance and leaves the
\* registry alone, otherwise it registers exactly one new Person and returns
\* it; the original, upper-cased and lower-cased spellings then all resolve to
\* that instance.  A whitespace-only name is rejected as empty, never as a
\* duplicate.
C2_GetPersonNeverDuplicate ==
  [][LET n == result'.args[1] IN
        (result'.op = "get_person" /\ get_person(n)) =>
          /\ result'.msg # "Person already exists"
          /\ strip(n) = <<>> => result'.msg = "Full name cannot be empty" /\ persons' = persons
          /\ strip(n) # <<>> =>
               /\ result'.exc = ""
               /\ IF NormKey(n) \in DOMAIN persons
                  THEN /\ result'.val = persons[NormKey(n)]
                       /\ persons' = persons
                  ELSE /\ DOMAIN persons' = DOMAIN persons \cup {NormKey(n)}
                       /\ \A k \in DOMAIN persons : persons'[k] = persons[k]
                       /\ persons'[NormKey(n)] = result'.val
                       /\ \A k \in DOMAIN persons : persons[k].id # result'.val.id
               /\ \A m \in {n, upper(n), lower(n)} :
                    get_person_in(persons', nextId', m).val = result'.val
     ]_vars

\* C2 witness: get_person was called with a spelling other than the
\* registered one and returned the registered instance.
C2_Witness ==
  /\ result.op = "get_person"
  /\ result.exc = ""
  /\ result.args[1] # result.val.full_name
  /\ upper(result.args[1]) # lower(result.args[1])
  /\ persons[NormKey(result.args[1])] = result.val

\* C3: Person(name) raises for an empty or whitespace-only name and for a
\* name whose normalized key is registered, leaving the registry as it was;
\* otherwise it adds exactly one entry under the normalized key.
C3_PersonConstruction ==
  [][LET n == result'.args[1] IN
        (result'.op = "Person" /\ Person(n)) =>
          IF strip(n) = <<>> \/ NormKey(n) \in DOMAIN persons
          THEN /\ result'.exc = "ValueError"
               /\ persons' = persons
          ELSE /\ result'.exc = ""
               /\ DOMAIN persons' = DOMAIN persons \cup {NormKey(n)}
               /\ Cardinality(DOMAIN persons') = Cardinality(DOMAIN persons) + 1
               /\ \A k \in DOMAIN persons : persons'[k] = persons[k]
               /\ persons'[NormKey(n)] = result'.val
               /\ result'.val.full_name = strip(n)
     ]_vars

\* C3 witness: a construction was rejected as a duplicate of a person
\* registered under another spelling, with another person registered as well.
C3_Witness ==
  /\ result.op = "Person"
  /\ result.msg = "Person already exists"
  /\ persons[NormKey(result.args[1])].full_name # result.args[1]
  /\ Cardinality(DOMAIN persons) >= 2

\* C4: Person.persons_count() returns the number of registered persons.
C4_PersonsCountOffered ==
  result.op = "persons_count" =>
    /\ result.exc = ""
    /\ result.val = Cardinality(DOMAIN persons)

\* ------------------------------------------------------------------------
\* Properties of the rating registry
\* ------------------------------------------------------------------------

\* The six standard codes, as the order list and the tests spell them.
StandardCodes == {rating_order[i] : i \in 1..Len(rating_order)}

\* The i-th rating constructed at import.
Predefined(i) == ratings[PredefinedArgs[i].code]

\* C5: get_rating of each of the six standard codes succeeds and returns the
\* instance created at import; get_rating of any other code raises the
\* not-found error while that code is not defined.
C5_StandardLookupStable ==
  result.op = "get_rating" =>
    LET c == result.args[1]
    IN  /\ c \in StandardCodes =>
             /\ result.exc = ""
             /\ result.val.code = c
             /\ result.val.id \in 1..Len(PredefinedArgs)
        /\ (c \notin StandardCodes /\ c \notin DOMAIN ratings) =>
             /\ result.exc = "ValueError"
             /\ result.msg = "Rating does not exist"

\* C6: for the six predefined instances in the order NR, G, PG, PG-13, R,
\* NC-17, an earlier one is < a later one and the later one is > the earlier.
C6_PredefinedOrder ==
  \A i, j \in 1..Len(PredefinedArgs) :
    i < j => /\ MovieRating_lt(Predefined(i), Predefined(j))
             /\ MovieRating_gt(Predefined(j), Predefined(i))

\* C7: constructing a MovieRating under one of the six standard codes always
\* raises and leaves the registry unchanged.
C7_StandardNeverRecreated ==
  [][\A c \in StandardCodes, d \in DescInputs \ {""} :
        MovieRating(c, d) => /\ result'.exc # ""
                             /\ ratings' = ratings
     ]_vars

\* C8: MovieRating(code, description) raises when either argument is empty
\* and when the code is registered, leaving the registry unchanged; with a
\* new code it registers the new instance under the code, after which a
\* second construction under that code raises.
C8_RatingConstruction ==
  [][LET c == result'.args[1]
         d == result'.args[2] IN
        (result'.op = "MovieRating" /\ MovieRating(c, d)) =>
          IF c = <<>> \/ d = "" \/ c \in DOMAIN ratings
          THEN /\ result'.exc = "ValueError"
               /\ ratings' = ratings
          ELSE /\ result'.exc = ""
               /\ result'.val.code = c
               /\ result'.val.description = d
               /\ DOMAIN ratings' = DOMAIN ratings \cup {c}
               /\ \A k \in DOMAIN ratings : ratings'[k] = ratings[k]
               /\ ratings'[c] = result'.val
               /\ \A k \in DOMAIN ratings : ratings[k].id # result'.val.id
               /\ \A d2 \in DescInputs :
                    /\ MovieRating_init(ratings', nextId', c, d2).exc = "ValueError"
                    /\ MovieRating_init(ratings', nextId', c, d2).ratings = ratings'
     ]_vars

\* C8 witness: PG28 is registered and a second construction under PG28, with
\* another description, was rejected.
C8_Witness ==
  /\ result.op = "MovieRating"
  /\ result.args[1] = <<"P", "G", "2", "8">>
  /\ result.msg = "Rating already exists"
  /\ ratings[result.args[1]].description # result.args[2]

\* C9: over all registered ratings the operators form one strict total
\* order: exactly one of a < b, a == b, a > b; a <= b iff a < b or a == b;
\* a >= b iff not a < b; and < is transitive.
C9_TotalOrder ==
  /\ \A a, b \in dict_values(ratings) :
        /\ (MovieRating_lt(a, b) /\ ~MovieRating_eq(a, b) /\ ~MovieRating_gt(a, b))
           \/ (~MovieRating_lt(a, b) /\ MovieRating_eq(a, b) /\ ~MovieRating_gt(a, b))
           \/ (~MovieRating_lt(a, b) /\ ~MovieRating_eq(a, b) /\ MovieRating_gt(a, b))
        /\ MovieRating_gt(a, b) <=> MovieRating_lt(b, a)
        /\ MovieRating_le(a, b) <=> (MovieRating_lt(a, b) \/ MovieRating_eq(a, b))
        /\ MovieRating_ge(a, b) <=> ~MovieRating_lt(a, b)
  /\ \A a, b, c \in dict_values(ratings) :
        (MovieRating_lt(a, b) /\ MovieRating_lt(b, c)) => MovieRating_lt(a, c)

\* ------------------------------------------------------------------------
\* Properties of the factory
\* ------------------------------------------------------------------------

\* A field of a row is blanked or missing.
Blanked(movie_info, f) == movie_info[f] = <<>> \/ movie_info[f] = Some(<<>>)

\* C10: create_movie raises, and produces no Movie, whenever one of the four
\* required fields is blanked or missing, whatever the other fields hold.
C10_RequiredFields ==
  [][LET movie_info == result'.args[1] IN
        (result'.op = "create_movie" /\ create_movie(movie_info)) =>
          ((\E f \in RequiredFields : Blanked(movie_info, f)) =>
              /\ result'.exc = "ValueError"
              /\ result'.val = None)
     ]_vars

\* C10 witness: a row with only its genre blanked, and a malformed runtime,
\* was rejected.
C10_Witness ==
  /\ result.op = "create_movie"
  /\ result.exc = "ValueError"
  /\ result.args[1]["genre"] = Some(<<>>)
  /\ \A f \in RequiredFields \ {"genre"} : ~Blanked(result.args[1], f)
  /\ result.args[1]["runtime"] = Some(<<"a", "b", "c">>)

\* ------------------------------------------------------------------------
\* Properties of the optional fields of create_movie
\* ------------------------------------------------------------------------

OptionalFields == {Fields[i] : i \in 1..Len(Fields)} \ RequiredFields

\* The blank value of an optional field and the values of it that cannot
\* be parsed.
Unusable ==
  [f \in OptionalFields |->
     {Some(<<>>)} \cup
     CASE f = "original_release_date"  -> {Some(<<"a", "b", "c">>), Some(<<"2", "0", "0", "1", "-", "0", "2", "-", "2", "9">>)}
       [] f = "streaming_release_date" -> {Some(<<"3", "0", "/", "1", "0", "/", "2", "0", "1", "6">>)}
       [] f = "runtime"                -> {Some(<<"a", "b", "c">>)}
       [] f = "audience_rating"        -> {Some(<<"6", "x">>)}
       [] OTHER                        -> {}]

\* What each optional field of MOVIE_INFO stands for once parsed.
ParsedFromMovieInfo ==
  [f \in OptionalFields |->
     CASE f = "directors"              -> << <<"c", "a", "r", "l", " ", "r", "e", "i", "n", "e", "r">> >>
       [] f = "original_release_date"  -> Some([year |-> 1984, month |-> 9, day |-> 21])
       [] f = "streaming_release_date" -> Some([year |-> 2016, month |-> 10, day |-> 30])
       [] f = "runtime"                -> Some(93)
       [] f = "production_company"     -> Some(<<"H", "B", "O", " ", "V", "i", "d", "e", "o">>)
       [] f = "audience_rating"        -> Some(67)
       [] f = "audience_count"         -> Some(14346)]

\* The attribute of a Movie that an optional field of the row ends up in
\* (the directors by their normalized names: the persons, not a spelling).
AttributeOf(movie, f) ==
  CASE f = "directors" -> [i \in 1..Len(movie.directors) |-> movie.directors[i].normalized_name]
    [] f = "original_release_date"  -> movie.release_date
    [] f = "streaming_release_date" -> movie.streaming_date
    [] f = "runtime"                -> movie.length
    [] f = "production_company"     -> movie.company
    [] f = "audience_rating"        -> movie.score
    [] f = "audience_count"         -> movie.count

\* The row is MOVIE_INFO but for field f.
OnlyAltered(movie_info, f) ==
  \A i \in 1..Len(Fields) : Fields[i] # f => movie_info[Fields[i]] = MOVIE_INFO[i]

\* C11: a row that is MOVIE_INFO with one optional field blanked, or holding
\* a value that cannot be parsed, makes create_movie return a Movie whose
\* attribute for that field is absent (None, no directors) and whose other
\* optional attributes hold the values parsed from MOVIE_INFO.
C11_OptionalFieldAbsent ==
  \A f \in OptionalFields :
     ( /\ result.op = "create_movie"
       /\ OnlyAltered(result.args[1], f)
       /\ result.args[1][f] \in Unusable[f] )
     => /\ result.exc = ""
        /\ \A g \in OptionalFields :
              AttributeOf(result.val, g) = IF g = f THEN <<>> ELSE ParsedFromMovieInfo[g]

\* ------------------------------------------------------------------------
\* Properties of the lookups of create_movie
\* ------------------------------------------------------------------------

\* The seven genre names, lower-cased, and the variant of Movie each stands for.
VariantOf ==
  ( <<"a", "c", "t", "i", "o", "n", " ", "&", " ", "a", "d", "v", "e", "n", "t", "u", "r", "e">> :> "ActionAdventure" ) @@
  ( <<"c", "o", "m", "e", "d", "y">> :> "Comedy" ) @@
  ( <<"d", "r", "a", "m", "a">> :> "Drama" ) @@
  ( <<"h", "o", "r", "r", "o", "r">> :> "Horror" ) @@
  ( <<"r", "o", "m", "a", "n", "c", "e">> :> "Romance" ) @@
  ( <<"s", "c", "i", "e", "n", "c", "e", " ", "f", "i", "c", "t", "i", "o", "n", " ", "&", " ", "f", "a", "n", "t", "a", "s", "y">> :> "ScienceFictionFantasy" ) @@
  ( <<"w", "e", "s", "t", "e", "r", "n">> :> "Western" )

\* create_movie was called on a row whose four required fields are filled in.
FactoryCalledOnFilledRow ==
  /\ result.op = "create_movie"
  /\ \A f \in RequiredFields : ~Blanked(result.args[1], f)

\* C12: on a row with a registered rating code, create_movie returns the
\* variant whose genre name equals the genre field up to letter case, and
\* raises when no name does; the movie returned has is_slapstick exactly when
\* it is a Comedy, is_cosy exactly when a Romance, is_scary exactly when a
\* Horror.
C12_GenreDispatch ==
  (FactoryCalledOnFilledRow /\ result.args[1]["content_rating"][1] \in DOMAIN ratings) =>
     LET name == lower(result.args[1]["genre"][1])
     IN  IF name \in DOMAIN VariantOf
         THEN /\ result.exc = ""
              /\ result.val.class = VariantOf[name]
              /\ hasattr(result.val, "is_slapstick") <=> (result.val.class = "Comedy")
              /\ hasattr(result.val, "is_cosy") <=> (result.val.class = "Romance")
              /\ hasattr(result.val, "is_scary") <=> (result.val.class = "Horror")
         ELSE /\ result.exc = "ValueError"
              /\ result.val = None

\* C12 witness: the genre spelled "rOmAnCe" gave a Romance, which has is_cosy.
C12_Witness ==
  /\ result.op = "create_movie"
  /\ result.args[1]["genre"] = Some(<<"r", "O", "m", "A", "n", "C", "e">>)
  /\ result.exc = ""
  /\ result.val.class = "Romance"
  /\ hasattr(result.val, "is_cosy")

\* C13: on a row with its required fields filled in and a known genre,
\* create_movie succeeds exactly when the rating code is registered at that
\* moment, the movie then holding the registry's instance for the code; for
\* any other code it raises ValueError "Invalid rating code".
C13_RatingLookup ==
  (FactoryCalledOnFilledRow /\ lower(result.args[1]["genre"][1]) \in DOMAIN VariantOf) =>
     LET code == result.args[1]["content_rating"][1]
     IN  IF code \in DOMAIN ratings
         THEN /\ result.exc = ""
              /\ result.val.rating = ratings[code]
         ELSE /\ result.exc = "ValueError"
              /\ result.msg = "Invalid rating code"
              /\ result.val = None

\* C13 witness: a movie rated PG28, a code registered after import.
C13_Witness ==
  /\ result.op = "create_movie"
  /\ result.exc = ""
  /\ result.args[1]["content_rating"] = Some(<<"P", "G", "2", "8">>)
  /\ result.val.rating.code = <<"P", "G", "2", "8">>
  /\ result.val.rating.id > Len(PredefinedArgs)

\* The trimmed, non-empty pieces between the commas of a directors field.
Tokens(field) ==
  IF Falsy(field) THEN <<>>
  ELSE LET pieces == split(field[1])
       IN  SelectSeq([i \in 1..Len(pieces) |-> strip(pieces[i])], LAMBDA piece : piece # <<>>)

\* C19: the directors of a movie returned by create_movie are, in order, the
\* registry's persons for the trimmed non-empty pieces of the directors field
\* (one instance per name, however often and however spelled), and nobody else
\* is registered; a missing or empty field gives no directors and leaves the
\* registry as it was.
C19_DirectorsParsed ==
  [][(result.op = "idle" /\ result'.op = "create_movie") =>
       LET field == result'.args[1]["directors"]
           names == Tokens(field)
       IN  /\ result'.exc = "" =>
                /\ Len(result'.val.directors) = Len(names)
                /\ \A i \in 1..Len(names) :
                      /\ NormKey(names[i]) \in DOMAIN persons'
                      /\ result'.val.directors[i] = persons'[NormKey(names[i])]
                /\ DOMAIN persons' = DOMAIN persons \cup {NormKey(names[i]) : i \in 1..Len(names)}
                /\ \A k \in DOMAIN persons : persons'[k] = persons[k]
           /\ Falsy(field) =>
                /\ persons' = persons
                /\ result'.exc = "" => result'.val.directors = <<>>
    ]_vars

\* C19 witness: three names, the first and the last the same person.
C19_Witness ==
  /\ result.op = "create_movie"
  /\ result.exc = ""
  /\ result.args[1]["directors"] = Some(<<"R", "o", "b", " ", "R", "e", "i", "n", "e", "r", ",", "C", "a", "r", "l", " ", "R", "e", "i", "n", "e", "r", ",", " ", "r", "o", "b", " ", "r", "e", "i", "n", "e", "r">>)
  /\ Len(result.val.directors) = 3
  /\ result.val.directors[1] = result.val.directors[3]
  /\ result.val.directors[1] # result.val.directors[2]

\* ------------------------------------------------------------------------
\* Properties of the methods of Movie
\* ------------------------------------------------------------------------

\* C14: is_scary of a Horror movie with one of the six ratings made at import
\* never raises, and returns true exactly when that rating is PG-13, R or
\* NC-17.
C14_ScaryAbovePG ==
  (result.op = "is_scary" /\ result.args[1].class = "Horror") =>
     /\ result.exc = ""
     /\ result.val = (result.args[1].rating.code \in { <<"P", "G", "-", "1", "3">>, <<"R">>, <<"N", "C", "-", "1", "7">> })

\* The score of a movie counts: it has one, from at least 100 votes.
ScoreCounts(movie) ==
  /\ movie.score # <<>>
  /\ movie.count # <<>>
  /\ movie.count[1] >= 100

\* C15: relevant_score never raises and is true exactly when the movie has a
\* score and a vote count of at least 100; is_slapstick of a Comedy never
\* raises and is true exactly when, besides, the score is below 40.
C15_RelevantScore ==
  /\ result.op = "relevant_score" =>
        /\ result.exc = ""
        /\ result.val = ScoreCounts(result.args[1])
  /\ (result.op = "is_slapstick" /\ result.args[1].class = "Comedy") =>
        /\ result.exc = ""
        /\ result.val = (ScoreCounts(result.args[1]) /\ result.args[1].score[1] < 40)

\* C15 witness: a Comedy with score 39 from exactly 100 votes is slapstick.
C15_Witness ==
  /\ result.op = "is_slapstick"
  /\ result.args[1].score = Some(39)
  /\ result.args[1].count = Some(100)
  /\ result.val = TRUE

\* C16: is_classic never raises and is true exactly when the score counts and
\* is above 80, and the movie has a release date whose year lies at least 20
\* before the current year.
C16_Classic ==
  result.op = "is_classic" =>
     /\ result.exc = ""
     /\ result.val = ( /\ ScoreCounts(result.args[1])
                       /\ result.args[1].score[1] > 80
                       /\ result.args[1].release_date # <<>>
                       /\ result.args[2] - result.args[1].release_date[1].year >= 20 )

\* C16 witness: score 81 from 100 votes, released exactly 20 years ago.
C16_Witness ==
  /\ result.op = "is_classic"
  /\ result.args[1].score = Some(81)
  /\ result.args[1].count = Some(100)
  /\ result.args[1].release_date # <<>>
  /\ result.args[2] - result.args[1].release_date[1].year = 20
  /\ result.val = TRUE

\* C17: reading Movie.directors gives a list with the Movie's directors in
\* their order and leaves the Movie's own list alone, and no append, pop,
\* reverse or clear on a list that Movie.directors returned changes the
\* Movie's own list.
C17_DirectorsCopy ==
  [][/\ result'.op = "directors" =>
          /\ result'.val.items = heap.lists[heap.own]
          /\ heap'.lists[heap.own] = heap.lists[heap.own]
     /\ (result'.op \in ListMutations /\ result'.args[1] \in heap.returned) =>
          /\ heap'.own = heap.own
          /\ heap'.lists[heap.own] = heap.lists[heap.own]
    ]_vars

\* C17 witness: a caller has just changed a list that Movie.directors
\* returned, which now differs from the Movie's own.
C17_Witness ==
  /\ result.op \in ListMutations
  /\ result.exc = ""
  /\ result.args[1] \in heap.returned
  /\ heap.lists[result.args[1]] # heap.lists[heap.own]
  /\ heap.lists[heap.own] # <<>>

\* ------------------------------------------------------------------------
\* Properties of eval_02
\* ------------------------------------------------------------------------

\* A row create_movie accepts: required fields filled in, a registered
\* rating code, one of the seven genre names.
AcceptedRow(row) ==
  /\ \A f \in RequiredFields : ~Blanked(row, f)
  /\ row["content_rating"][1] \in DOMAIN ratings
  /\ lower(row["genre"][1]) \in DOMAIN VariantOf

\* The titles of the movies loaded so far are those of the accepted rows
\* among the rows read so far, in the order of the file, and every row read
\* is either loaded or counted as an error.
LoadedSoFar ==
  main.pc \in {"load", "menu"} =>
     LET read     == SubSeq(main.file[1], 1, main.line)
         accepted == SelectSeq(read, AcceptedRow)
     IN  /\ Len(main.movies) = Len(accepted)
         /\ \A j \in 1..Len(accepted) : main.movies[j].title = accepted[j]["movie_title"][1]
         /\ Len(main.movies) + main.errors = main.line
         /\ main.pc = "menu" => main.line = Len(main.file[1])

\* C18: load_movies goes on to the next row whether create_movie returned or
\* raised, and what it returns are the movies of the accepted rows in file
\* order, their number and the number of errors adding up to the rows read.
C18_LoadContinues ==
  [][/\ (main.pc = "load" /\ main.line < Len(main.file[1])) =>
          (main'.pc = "load" /\ main'.line = main.line + 1)
     /\ LoadedSoFar'
    ]_vars

\* C18 witness: the first row of the file failed, the second was loaded.
C18_Witness ==
  /\ main.pc = "menu"
  /\ main.line = 2
  /\ ~AcceptedRow(main.file[1][1])
  /\ main.errors = 1
  /\ Len(main.movies) = 1
  /\ main.movies[1].title = main.file[1][2]["movie_title"][1]

\* C20: once the catalog is loaded the menu loop is left only by choice 10:
\* after any other input the menu is shown again, with the same catalog.
C20_MenuUntilStop ==
  [][main.pc = "menu" =>
        \/ main'.pc = "menu" /\ main'.movies = main.movies
        \/ main'.pc = "ended" /\ main'.choice = <<"1", "0">>
    ]_vars

\* ------------------------------------------------------------------------
\* Properties of the order of ratings, of the registries over time, and of
\* the directors of a catalog
\* ------------------------------------------------------------------------

\* The fixed sequence of codes, and the place of a code in it.
FixedSequence == << <<"N", "R">>, <<"G">>, <<"P", "G">>, <<"P", "G", "-", "1", "3">>, <<"R">>, <<"N", "C", "1", "7">> >>

InSequence(code) == \E i \in 1..Len(FixedSequence) : FixedSequence[i] = code

PositionOf(code) == CHOOSE i \in 1..Len(FixedSequence) : FixedSequence[i] = code

\* s comes before t in the lexicographic order of strings.
RECURSIVE Lexicographic(_, _)
Lexicographic(s, t) ==
  IF t = <<>> THEN FALSE
  ELSE IF s = <<>> THEN TRUE
  ELSE IF s[1] = t[1] THEN Lexicographic(Tail(s), Tail(t))
  ELSE ord(s[1]) < ord(t[1])

\* C21: a < b on two registered ratings is the comparison of the positions
\* of their codes in the fixed sequence when both codes are in it, and the
\* lexicographic comparison of the two codes otherwise.
C21_LessThan ==
  result.op = "lt" =>
     LET a == result.args[1].code
         b == result.args[2].code
     IN  /\ result.exc = ""
         /\ result.val = IF InSequence(a) /\ InSequence(b)
                         THEN PositionOf(a) < PositionOf(b)
                         ELSE Lexicographic(a, b)

\* C21 witness: G < NC-17 was evaluated, NC-17 being outside the sequence,
\* and is true as "G" < "NC-17" is.
C21_Witness ==
  /\ result.op = "lt"
  /\ result.args[1].code = <<"G">>
  /\ result.args[2].code = <<"N", "C", "-", "1", "7">>
  /\ result.val = TRUE

\* C22: no call of Person(), get_person(), MovieRating(), get_rating() or
\* create_movie() removes a key from the Person registry or the rating
\* registry, or changes the instance under a key or one of its attributes;
\* neither registry shrinks.
C22_AppendOnly ==
  [][/\ \A k \in DOMAIN persons : k \in DOMAIN persons' /\ persons'[k] = persons[k]
     /\ \A c \in DOMAIN ratings : c \in DOMAIN ratings' /\ ratings'[c] = ratings[c]
     /\ Cardinality(DOMAIN persons') >= Cardinality(DOMAIN persons)
     /\ Cardinality(DOMAIN ratings') >= Cardinality(DOMAIN ratings)
    ]_vars

\* C22 witness: both registries have grown since import, and a call naming
\* a registered person in another spelling has just been answered.
C22_Witness ==
  /\ Cardinality(DOMAIN ratings) > Len(PredefinedArgs)
  /\ result.op \in {"Person", "get_person"}
  /\ NormKey(result.args[1]) \in DOMAIN persons
  /\ persons[NormKey(result.args[1])].full_name # strip(result.args[1])

\* C23: a create_movie call that raises leaves the Person registry as it
\* was before the call.
C23_FailureRegistersNobody ==
  [][(result.op = "idle" /\ result'.op = "create_movie" /\ result'.exc # "") =>
        persons' = persons
    ]_vars

\* Every director of every movie of the catalog is the instance the Person
\* registry holds under the director's normalized name.
DirectorsAreRegistered ==
  \A j \in 1..Len(main.movies) :
     \A i \in 1..Len(main.movies[j].directors) :
        LET director == main.movies[j].directors[i]
        IN  /\ director.normalized_name \in DOMAIN persons
            /\ persons[director.normalized_name] = director

\* The first of the names that has the normalized key k.
FirstSpelling(names, k) ==
  names[SetMin({i \in 1..Len(names) : NormKey(names[i]) = k})]

\* C24: throughout a load, every director of every movie loaded is the
\* registry's instance for the normalized name; the directors of the movie
\* just loaded are the registry's instances for the names of its row, however
\* spelled; a person entering the registry gets the trimmed spelling of the
\* first name that stands for it, and no registered full_name changes.
C24_DirectorsShared ==
  [][/\ DirectorsAreRegistered'
     /\ \A k \in DOMAIN persons :
           k \in DOMAIN persons' /\ persons'[k].full_name = persons[k].full_name
     /\ result'.op = "create_movie" =>
           LET names == Tokens(result'.args[1]["directors"])
           IN  /\ result'.exc = "" =>
                    \A i \in 1..Len(names) :
                       result'.val.directors[i] = persons'[NormKey(names[i])]
               /\ \A k \in DOMAIN persons' \ DOMAIN persons :
                     persons'[k].full_name = FirstSpelling(names, k)
    ]_vars

\* C24 witness: two movies loaded from rows that spell the director
\* differently hold the same Person, whose full_name is the spelling of the
\* first row and not that of the second.
C24_Witness ==
  /\ main.pc = "menu"
  /\ Len(main.movies) = 2
  /\ main.file[1][1]["directors"] # main.file[1][2]["directors"]
  /\ main.movies[1].directors # <<>>
  /\ main.movies[2].directors # <<>>
  /\ main.movies[1].directors[1] = main.movies[2].directors[1]
  /\ main.movies[2].directors[1].full_name # Tokens(main.file[1][2]["directors"])[1]
  /\ main.movies[1].directors[1].full_name = Tokens(main.file[1][1]["directors"])[1]

====
